---- MODULE Spec2Model ----
(***************************************************************************)
(* Model of the halo2 "hello world" quadratic circuit: the Add and Mul     *)
(* chips (src/src/add/lib.rs, src/src/mul/lib.rs) and the composite        *)
(* SolutionChip / MyCircuit (src/src/lib.rs).                              *)
(*                                                                         *)
(* The state is the table under construction by the layouter (one advice   *)
(* column, two selectors, the copy constraints and the instance bindings), *)
(* the wires (Number) produced so far and the position inside              *)
(* MyCircuit::synthesize.  Field elements are the integers modulo P.       *)
(***************************************************************************)
EXTENDS Integers, Sequences, FiniteSets, TLC

\* ---------------------------------------------------------------- bounds
P == 5          \* modulus of the model field
MaxRuns == 2    \* number of times the driver calls synthesize

\* ------------------------------------------------------------- constants
k == 5          \* the table has 2^k rows (tests)
OutputRow == 2  \* instance row the solution is exposed at

N == 2^k
Rows == 0..(N - 1)
Field == 0..(P - 1)
Unknown == -1       \* Value::unknown()
Unassigned == -2    \* a cell no assignment has touched
ValueSet == Field \cup {Unknown}

\* number of layouter calls of one complete synthesis:
\* load_private 2, load_constants 7, four gates of 7 each, expose_public 1
NumPrims == 2 + 7 + 4 * 7 + 1

VARIABLES x, instance, failOp, pc, tbl, wires, verdict, run, prev
vars == <<x, instance, failOp, pc, tbl, wires, verdict, run, prev>>

\* ------------------------------------------------------ field arithmetic
FAdd(p, q) == (p + q) % P
FMul(p, q) == (p * q) % P
FSub(p, q) == (p + P - q) % P

\* variant: an unknown operand is replaced by a zero placeholder
ValueAdd_placeholder(p, q) == FAdd(IF p = Unknown THEN 0 ELSE p, IF q = Unknown THEN 0 ELSE q)

\* Value<F> + Value<F>: unknown if either side is unknown
ValueAdd(p, q) == IF p = Unknown \/ q = Unknown THEN Unknown ELSE FAdd(p, q)

\* variant: the product is computed as a sum
ValueMul_asAdd(p, q) == IF p = Unknown \/ q = Unknown THEN Unknown ELSE FAdd(p, q)

\* Value<F> * Value<F>: unknown if either side is unknown
ValueMul(p, q) == IF p = Unknown \/ q = Unknown THEN Unknown ELSE FMul(p, q)

\* ------------------------------------------------------------- the gates
\* variant: the identity is not multiplied by the selector
AddGate_noSel(s, lhs, rhs, out) == FSub(FAdd(lhs, rhs), out)

\* s_add * (lhs + rhs - out)
AddGate(s, lhs, rhs, out) == FMul(s, FSub(FAdd(lhs, rhs), out))

\* s_mul * (lhs * rhs - out)
MulGate(s, lhs, rhs, out) == FMul(s, FSub(FMul(lhs, rhs), out))

\* ------------------------------------------------------------ the wires
Number(row, val) == [row |-> row, val |-> val]
NoWire == [row |-> -1, val |-> Unassigned]
WireNames == {"x", "a", "b", "c", "x2", "bx", "ax2", "solution"}

\* --------------------------------------------------- the layouter calls
\* Each call either takes effect or is rejected by the layouter; failOp is
\* the ordinal of the call the layouter rejects (0: none).  Once a call of
\* a step has failed (ok = FALSE) the remaining calls of the step are
\* skipped, as the ? operator does.
InitTbl ==
  [advice |-> [r \in Rows |-> Unassigned],
   cnt |-> [r \in Rows |-> 0],
   s_add |-> {},
   s_mul |-> {},
   copies |-> {},
   bindings |-> {},
   regions |-> <<>>,
   next |-> 0,
   ops |-> 0,
   ok |-> TRUE]

Rejected(L) == L.ops + 1 = failOp

Fail(L) == [L EXCEPT !.ops = @ + 1, !.ok = FALSE]

\* start row of the region opened last
RegionStart(L) == L.regions[Len(L.regions)].start

\* variant: the window is placed relative to a frontier that survives from
\* the previous synthesis
assign_region_stale(L, name, nrows) ==
  IF ~L.ok THEN L
  ELSE IF Rejected(L) THEN Fail(L)
  ELSE [L EXCEPT !.ops = @ + 1,
                 !.regions = Append(@, [name |-> name, start |-> L.next + (run - 1), rows |-> nrows]),
                 !.next = @ + nrows]

\* variant: the first free row is not advanced past the window
assign_region_noAdvance(L, name, nrows) ==
  IF ~L.ok THEN L
  ELSE IF Rejected(L) THEN Fail(L)
  ELSE [L EXCEPT !.ops = @ + 1,
                 !.regions = Append(@, [name |-> name, start |-> L.next, rows |-> nrows])]

\* layouter.assign_region: a fresh window of nrows rows at the column's
\* first free row
assign_region(L, name, nrows) ==
  IF ~L.ok THEN L
  ELSE IF Rejected(L) THEN Fail(L)
  ELSE [L EXCEPT !.ops = @ + 1,
                 !.regions = Append(@, [name |-> name, start |-> L.next, rows |-> nrows]),
                 !.next = @ + nrows]

assign_advice(L, row, v) ==
  IF ~L.ok THEN L
  ELSE IF Rejected(L) \/ row \notin Rows THEN Fail(L)
  ELSE [L EXCEPT !.ops = @ + 1, !.advice[row] = v, !.cnt[row] = @ + 1]

enable(L, sel, row) ==
  IF ~L.ok THEN L
  ELSE IF Rejected(L) \/ row \notin Rows THEN Fail(L)
  ELSE IF sel = "s_add" THEN [L EXCEPT !.ops = @ + 1, !.s_add = @ \cup {row}]
  ELSE [L EXCEPT !.ops = @ + 1, !.s_mul = @ \cup {row}]

constrain_equal(L, r1, r2) ==
  IF ~L.ok THEN L
  ELSE IF Rejected(L) THEN Fail(L)
  ELSE [L EXCEPT !.ops = @ + 1, !.copies = @ \cup {<<r1, r2>>}]

constrain_instance(L, row, i) ==
  IF ~L.ok THEN L
  ELSE IF Rejected(L) THEN Fail(L)
  ELSE [L EXCEPT !.ops = @ + 1, !.bindings = @ \cup {<<row, i>>}]

\* AssignedCell::copy_advice: assign the wire's value, then tie the new
\* cell to the wire's cell
copy_advice(L, w, row) == constrain_equal(assign_advice(L, row, w.val), row, w.row)

\* Region::assign_advice_from_instance: assign the instance value, then
\* bind the cell to the instance row
assign_advice_from_instance(L, i, row) ==
  constrain_instance(assign_advice(L, row, instance[i + 1]), row, i)

\* ------------------------------------------------------------- the chips
Result(L, w) == [tbl |-> L, num |-> IF L.ok THEN w ELSE NoWire]

\* variant: the selector is enabled one row too low
add_selNext(L0, a, b) ==
  LET L1 == assign_region(L0, "add", 3)
      s == IF L1.ok THEN RegionStart(L1) ELSE 0
      L2 == enable(L1, "s_add", s + 1)
      L3 == copy_advice(L2, a, s + 0)
      L4 == copy_advice(L3, b, s + 1)
      value == ValueAdd(a.val, b.val)
      L5 == assign_advice(L4, s + 2, value)
  IN Result(L5, Number(s + 2, value))

add(L0, a, b) ==
  LET L1 == assign_region(L0, "add", 3)
      s == IF L1.ok THEN RegionStart(L1) ELSE 0
      L2 == enable(L1, "s_add", s + 0)
      L3 == copy_advice(L2, a, s + 0)
      L4 == copy_advice(L3, b, s + 1)
      value == ValueAdd(a.val, b.val)
      L5 == assign_advice(L4, s + 2, value)
  IN Result(L5, Number(s + 2, value))

mul(L0, a, b) ==
  LET L1 == assign_region(L0, "mul", 3)
      s == IF L1.ok THEN RegionStart(L1) ELSE 0
      L2 == enable(L1, "s_mul", s + 0)
      L3 == copy_advice(L2, a, s + 0)
      L4 == copy_advice(L3, b, s + 1)
      value == ValueMul(a.val, b.val)
      L5 == assign_advice(L4, s + 2, value)
  IN Result(L5, Number(s + 2, value))

load_private(L0, value) ==
  LET L1 == assign_region(L0, "load private", 1)
      s == IF L1.ok THEN RegionStart(L1) ELSE 0
      L2 == assign_advice(L1, s + 0, value)
  IN Result(L2, Number(s + 0, value))

load_constants(L0) ==
  LET L1 == assign_region(L0, "load constants", 3)
      s == IF L1.ok THEN RegionStart(L1) ELSE 0
      L2 == assign_advice_from_instance(L1, 0, s + 0)
      L3 == assign_advice_from_instance(L2, 1, s + 1)
      L4 == assign_advice_from_instance(L3, 2, s + 2)
  IN [tbl |-> L4,
      a |-> IF L4.ok THEN Number(s + 0, instance[1]) ELSE NoWire,
      b |-> IF L4.ok THEN Number(s + 1, instance[2]) ELSE NoWire,
      c |-> IF L4.ok THEN Number(s + 2, instance[3]) ELSE NoWire]

\* variant: the wire is bound to instance row 0
expose_public_row0(L0, num, row) == constrain_instance(L0, num.row, 0)

expose_public(L0, num, row) == constrain_instance(L0, num.row, row)

\* ----------------------------------------------------------- verification
Sel(S, r) == IF r \in S THEN 1 ELSE 0

\* value the gates read in a cell (a cell holding no field element reads as
\* zero)
Cell(L, r) == IF L.advice[r % N] \in Field THEN L.advice[r % N] ELSE 0

AddGateAt(L, r) == AddGate(Sel(L.s_add, r), Cell(L, r), Cell(L, r + 1), Cell(L, r + 2))
MulGateAt(L, r) == MulGate(Sel(L.s_mul, r), Cell(L, r), Cell(L, r + 1), Cell(L, r + 2))

\* MockProver::verify: every gate is zero on every row, every copy
\* constraint and every instance binding ties equal values
Verifies(L) ==
  /\ \A r \in Rows : AddGateAt(L, r) = 0 /\ MulGateAt(L, r) = 0
  /\ \A c \in L.copies : L.advice[c[1]] = L.advice[c[2]]
  /\ \A b \in L.bindings : L.advice[b[1]] = instance[b[2] + 1]

\* --------------------------------------------------------- MyCircuit
\* variant: the error of a step is dropped
Propagate_ignore(L, nextStep) == nextStep

\* the ? operator: go on with the next step, or return the error
Propagate(L, nextStep) == IF L.ok THEN nextStep ELSE "failed"

Begin(L) == [L EXCEPT !.ok = TRUE]

Known == x # Unknown /\ \A i \in 1..3 : instance[i] # Unknown

Init ==
  /\ x \in ValueSet
  /\ instance \in [1..3 -> Field] \cup {[i \in 1..3 |-> Unknown]}
  /\ failOp \in 0..NumPrims
  /\ pc = "load_private"
  /\ tbl = InitTbl
  /\ wires = [w \in WireNames |-> NoWire]
  /\ verdict = "none"
  /\ run = 1
  /\ prev = [pc |-> "none", tbl |-> InitTbl, wires |-> [w \in WireNames |-> NoWire]]

LoadPrivate ==
  /\ pc = "load_private"
  /\ LET r == load_private(Begin(tbl), x) IN
       /\ tbl' = r.tbl
       /\ wires' = [wires EXCEPT !["x"] = r.num]
       /\ pc' = Propagate(r.tbl, "load_constants")
  /\ UNCHANGED <<x, instance, failOp, verdict, run, prev>>

LoadConstants ==
  /\ pc = "load_constants"
  /\ LET r == load_constants(Begin(tbl)) IN
       /\ tbl' = r.tbl
       /\ wires' = [wires EXCEPT !["a"] = r.a, !["b"] = r.b, !["c"] = r.c]
       /\ pc' = Propagate(r.tbl, "mul_x2")
  /\ UNCHANGED <<x, instance, failOp, verdict, run, prev>>

MulX2 ==
  /\ pc = "mul_x2"
  /\ LET r == mul(Begin(tbl), wires["x"], wires["x"]) IN
       /\ tbl' = r.tbl
       /\ wires' = [wires EXCEPT !["x2"] = r.num]
       /\ pc' = Propagate(r.tbl, "mul_bx")
  /\ UNCHANGED <<x, instance, failOp, verdict, run, prev>>

\* variant: bx is computed from c instead of b
MulBx_usesC ==
  /\ pc = "mul_bx"
  /\ LET r == mul(Begin(tbl), wires["c"], wires["x"]) IN
       /\ tbl' = r.tbl
       /\ wires' = [wires EXCEPT !["bx"] = r.num]
       /\ pc' = Propagate(r.tbl, "mul_ax2")
  /\ UNCHANGED <<x, instance, failOp, verdict, run, prev>>

MulBx ==
  /\ pc = "mul_bx"
  /\ LET r == mul(Begin(tbl), wires["b"], wires["x"]) IN
       /\ tbl' = r.tbl
       /\ wires' = [wires EXCEPT !["bx"] = r.num]
       /\ pc' = Propagate(r.tbl, "mul_ax2")
  /\ UNCHANGED <<x, instance, failOp, verdict, run, prev>>

MulAx2 ==
  /\ pc = "mul_ax2"
  /\ LET r == mul(Begin(tbl), wires["a"], wires["x2"]) IN
       /\ tbl' = r.tbl
       /\ wires' = [wires EXCEPT !["ax2"] = r.num]
       /\ pc' = Propagate(r.tbl, "add")
  /\ UNCHANGED <<x, instance, failOp, verdict, run, prev>>

AddAx2Bx ==
  /\ pc = "add"
  /\ LET r == add(Begin(tbl), wires["ax2"], wires["bx"]) IN
       /\ tbl' = r.tbl
       /\ wires' = [wires EXCEPT !["solution"] = r.num]
       /\ pc' = Propagate(r.tbl, "expose_public")
  /\ UNCHANGED <<x, instance, failOp, verdict, run, prev>>

ExposePublic ==
  /\ pc = "expose_public"
  /\ LET L == expose_public(Begin(tbl), wires["solution"], OutputRow) IN
       /\ tbl' = L
       /\ pc' = Propagate(L, "done")
  /\ UNCHANGED <<x, instance, failOp, wires, verdict, run, prev>>

\* MockProver::run(..).unwrap() followed by prover.verify()
Verify ==
  /\ pc = "done"
  /\ verdict = "none"
  /\ Known
  /\ verdict' = IF Verifies(tbl) THEN "ok" ELSE "err"
  /\ UNCHANGED <<x, instance, failOp, pc, tbl, wires, run, prev>>

\* the driver calls synthesize again on the same circuit, configuration and
\* instance, with a fresh layouter
Rerun ==
  /\ pc \in {"done", "failed"}
  /\ run < MaxRuns
  /\ prev' = [pc |-> pc, tbl |-> tbl, wires |-> wires]
  /\ run' = run + 1
  /\ pc' = "load_private"
  /\ tbl' = InitTbl
  /\ wires' = [w \in WireNames |-> NoWire]
  /\ verdict' = "none"
  /\ UNCHANGED <<x, instance, failOp>>

Next ==
  \/ LoadPrivate
  \/ LoadConstants
  \/ MulX2
  \/ MulBx
  \/ MulAx2
  \/ AddAx2Bx
  \/ ExposePublic
  \/ Verify
  \/ Rerun

Spec == Init /\ [][Next]_vars

\* ===================================================================
\* Properties
\* ===================================================================
A == instance[1]
B == instance[2]
C == instance[3]

\* a*x^2 + b*x
Quad == FAdd(FMul(A, FMul(x, x)), FMul(B, x))

RegionRows(reg) == reg.start..(reg.start + reg.rows - 1)
RegionsNamed(name) == {i \in 1..Len(tbl.regions) : tbl.regions[i].name = name}

\* C1: for a known witness x and instance [a, b, c], a completed synthesis
\* verifies iff a*x^2 + b*x - c = 0 in the field; the result is exposed at
\* instance row 2; [1,2,3] with x = 1 is accepted, [1,1,3] with x = 1 is
\* rejected.
C1_AcceptIffRoot ==
  (pc = "done" /\ Known) =>
    /\ Verifies(tbl) <=> (FSub(Quad, C) = 0)
    /\ verdict = "ok" => FSub(Quad, C) = 0
    /\ verdict = "err" => FSub(Quad, C) # 0
    /\ <<wires["solution"].row, 2>> \in tbl.bindings
    /\ \A i \in 0..2 : <<wires["a"].row + i, i>> \in tbl.bindings
    /\ (A = 1 /\ B = 2 /\ C = 3 /\ x = 1) => Verifies(tbl)
    /\ (A = 1 /\ B = 1 /\ C = 3 /\ x = 1) => ~Verifies(tbl)

C1_Witness ==
  verdict = "ok" /\ A = 1 /\ B = 2 /\ C = 3 /\ x = 1

\* C2: for known a, b, c, x the wire returned by solve_quadratic carries
\* a*x^2 + b*x - c.
C2_ReturnsQuadMinusC ==
  (wires["solution"] # NoWire /\ Known) =>
    wires["solution"].val = FSub(Quad, C)

\* C3: one call of add on known wires p, q opens one 3-row region: row 0 a
\* copy of p tied to p's cell, row 1 a copy of q tied to q's cell, row 2 the
\* freshly assigned p + q, which is the returned wire; s_add is enabled on
\* row 0 only and the add identity is zero there.
C3_AddRegion ==
  (wires["solution"] # NoWire /\ wires["ax2"].val # Unknown /\ wires["bx"].val # Unknown) =>
    LET p == wires["ax2"]
        q == wires["bx"]
        reg == tbl.regions[Len(tbl.regions)]
        s == reg.start
    IN /\ RegionsNamed("add") = {Len(tbl.regions)}
       /\ reg.rows = 3
       /\ tbl.advice[s] = p.val /\ <<s, p.row>> \in tbl.copies
       /\ tbl.advice[s + 1] = q.val /\ <<s + 1, q.row>> \in tbl.copies
       /\ tbl.advice[s + 2] = FAdd(p.val, q.val)
       /\ tbl.cnt[s + 2] = 1 /\ \A cp \in tbl.copies : cp[1] # s + 2
       /\ wires["solution"] = Number(s + 2, FAdd(p.val, q.val))
       /\ tbl.s_add = {s}
       /\ AddGate(1, tbl.advice[s], tbl.advice[s + 1], tbl.advice[s + 2]) = 0
       /\ AddGateAt(tbl, s) = 0

C3_Witness ==
  /\ wires["solution"] # NoWire
  /\ wires["ax2"].val = 3 /\ wires["bx"].val = 4
  /\ wires["solution"].val = FAdd(3, 4)

\* the three calls of mul: region index, operands and result
MulCalls ==
  {[reg |-> 3, a |-> "x", b |-> "x", out |-> "x2"],
   [reg |-> 4, a |-> "b", b |-> "x", out |-> "bx"],
   [reg |-> 5, a |-> "a", b |-> "x2", out |-> "ax2"]}

\* C4: one call of mul on known wires p, q opens one 3-row region: row 0 a
\* copy of p, row 1 a copy of q (each tied to the input's cell), row 2 the
\* freshly assigned p * q, which is the returned wire; s_mul is enabled on
\* row 0 only and the mul identity is zero there.
C4_MulRegion ==
  \A m \in MulCalls :
    (wires[m.out] # NoWire /\ wires[m.a].val # Unknown /\ wires[m.b].val # Unknown) =>
      LET p == wires[m.a]
          q == wires[m.b]
          reg == tbl.regions[m.reg]
          s == reg.start
      IN /\ reg.name = "mul" /\ reg.rows = 3
         /\ tbl.advice[s] = p.val /\ <<s, p.row>> \in tbl.copies
         /\ tbl.advice[s + 1] = q.val /\ <<s + 1, q.row>> \in tbl.copies
         /\ tbl.advice[s + 2] = FMul(p.val, q.val)
         /\ tbl.cnt[s + 2] = 1 /\ \A cp \in tbl.copies : cp[1] # s + 2
         /\ wires[m.out] = Number(s + 2, FMul(p.val, q.val))
         /\ tbl.s_mul \cap RegionRows(reg) = {s}
         /\ MulGate(1, tbl.advice[s], tbl.advice[s + 1], tbl.advice[s + 2]) = 0
         /\ MulGateAt(tbl, s) = 0

C4_Witness ==
  /\ wires["ax2"] # NoWire
  /\ wires["a"].val = 3 /\ wires["x2"].val = 4
  /\ wires["ax2"].val = FMul(3, 4)
  /\ Cardinality(tbl.s_mul) = 3

\* C5: on every row where a chip's selector is not enabled the chip's
\* identity is zero whatever the row and the two following rows hold; in
\* the synthesized table the add gate is silent on the rows of mul,
\* load private and load constants, and the mul gate on the rows of add,
\* load private and load constants.
C5_DisabledRowNeutral ==
  /\ \A s \in {Sel(tbl.s_add, r) : r \in Rows \ tbl.s_add} :
       \A v0, v1, v2 \in Field : AddGate(s, v0, v1, v2) = 0
  /\ \A s \in {Sel(tbl.s_mul, r) : r \in Rows \ tbl.s_mul} :
       \A v0, v1, v2 \in Field : MulGate(s, v0, v1, v2) = 0
  /\ \A i \in 1..Len(tbl.regions) :
       /\ tbl.regions[i].name # "add" =>
            \A r \in RegionRows(tbl.regions[i]) : r \notin tbl.s_add /\ AddGateAt(tbl, r) = 0
       /\ tbl.regions[i].name # "mul" =>
            \A r \in RegionRows(tbl.regions[i]) : r \notin tbl.s_mul /\ MulGateAt(tbl, r) = 0

C5_Witness ==
  /\ pc = "done"
  /\ \E r \in tbl.s_mul :
       /\ FSub(FAdd(Cell(tbl, r), Cell(tbl, r + 1)), Cell(tbl, r + 2)) # 0
       /\ AddGateAt(tbl, r) = 0
  /\ \E r \in tbl.s_add :
       /\ FSub(FMul(Cell(tbl, r), Cell(tbl, r + 1)), Cell(tbl, r + 2)) # 0
       /\ MulGateAt(tbl, r) = 0

\* the four gate invocations: operands and result
GateCalls ==
  MulCalls \cup {[reg |-> 6, a |-> "ax2", b |-> "bx", out |-> "solution"]}

\* C6: in add and mul an unknown input gives an unknown output (never a
\* field value) and the operation succeeds; with x unknown synthesis does
\* not fail unless the layouter rejects a call, and every wire that depends
\* on x is unknown.
C6_UnknownPropagates ==
  /\ \A g \in GateCalls :
       (wires[g.out] # NoWire /\ (wires[g.a].val = Unknown \/ wires[g.b].val = Unknown)) =>
         /\ wires[g.out].val = Unknown
         /\ wires[g.out].val \notin Field
         /\ tbl.advice[wires[g.out].row] = Unknown
  /\ (x = Unknown /\ failOp = 0) => pc # "failed"
  /\ (x = Unknown /\ pc = "done") =>
       \A w \in {"x", "x2", "bx", "ax2", "solution"} : wires[w].val = Unknown

C6_Witness ==
  /\ pc = "done" /\ x = Unknown /\ A = 2
  /\ wires["solution"].val = Unknown
  /\ tbl.ops = NumPrims

\* wire produced by each step that produces one, in program order
StepWire == <<"x", "c", "x2", "bx", "ax2", "solution">>

\* C7: when a layouter call fails, synthesis stops there and returns the
\* error: no later call is made (no region, no constraint, no retry), and
\* the wires of the failing step and of the later steps do not exist.
C7_FailStops ==
  (failOp # 0 /\ tbl.ops >= failOp) =>
    /\ pc = "failed"
    /\ tbl.ops = failOp
    /\ ~tbl.ok
    /\ verdict = "none"
    /\ \E j \in 0..6 :
         /\ \A i \in 1..6 : (wires[StepWire[i]] # NoWire) <=> (i <= j)
         /\ Len(tbl.regions) \in {j, j + 1}
         /\ Len(tbl.regions) <= 6
    /\ \A b \in tbl.bindings : b[1] \in RegionRows(tbl.regions[2])

C7_Witness ==
  /\ pc = "failed"
  /\ wires["x2"] # NoWire /\ wires["bx"] = NoWire
  /\ Len(tbl.regions) = 4
  /\ tbl.s_mul = {4, 7}

GateOrder == <<"mul", "mul", "mul", "add">>

RowsOf(name) == IF name = "load private" THEN 1 ELSE 3

\* the regions are back to back, of the sizes 1 (load private) and 3 (load
\* constants, mul, add), pairwise disjoint; every advice cell is assigned at
\* most once, inside some region; no row enables both selectors
RegionsDisjoint ==
  /\ \A i \in 1..Len(tbl.regions) :
       /\ tbl.regions[i].rows = RowsOf(tbl.regions[i].name)
       /\ tbl.regions[i].start = IF i = 1 THEN 0
                                 ELSE tbl.regions[i - 1].start + tbl.regions[i - 1].rows
       /\ \A j \in 1..Len(tbl.regions) :
            i # j => RegionRows(tbl.regions[i]) \cap RegionRows(tbl.regions[j]) = {}
  /\ \A r \in Rows :
       /\ tbl.cnt[r] <= 1
       /\ tbl.cnt[r] = 1 => \E i \in 1..Len(tbl.regions) : r \in RegionRows(tbl.regions[i])
  /\ tbl.s_add \cap tbl.s_mul = {}
  /\ \A r \in tbl.s_add \cup tbl.s_mul :
       \E i \in 1..Len(tbl.regions) : r = tbl.regions[i].start

\* a step of one synthesis opens at most one region and writes cells and
\* selectors only inside the region it opened: the earlier regions are closed
WritesOwnRegion ==
  run' = run =>
    /\ Len(tbl'.regions) \in {Len(tbl.regions), Len(tbl.regions) + 1}
    /\ SubSeq(tbl'.regions, 1, Len(tbl.regions)) = tbl.regions
    /\ \A r \in Rows :
         (tbl'.advice[r] # tbl.advice[r] \/ tbl'.cnt[r] # tbl.cnt[r]
          \/ (r \in tbl'.s_add) # (r \in tbl.s_add) \/ (r \in tbl'.s_mul) # (r \in tbl.s_mul)) =>
           /\ Len(tbl'.regions) = Len(tbl.regions) + 1
           /\ r \in RegionRows(tbl'.regions[Len(tbl'.regions)])

\* C10: at every point of synthesis the regions opened so far occupy
\* pairwise disjoint row ranges of the sizes 1 (load private) and 3 (load
\* constants, mul, add), each region is closed before the next one is opened,
\* every advice cell is assigned at most once, and no row enables both
\* selectors.
C10_DisjointRegions == []RegionsDisjoint /\ [][WritesOwnRegion]_vars

C10_Witness ==
  /\ pc = "done"
  /\ Len(tbl.regions) = 6
  /\ tbl.next = 16
  /\ \A r \in 0..15 : tbl.cnt[r] = 1
  /\ tbl.s_mul = {4, 7, 10} /\ tbl.s_add = {13}
====
